---- MODULE Spec2Model ----
(***************************************************************************)
(* A model of the nft-storage client (src/src/lib.rs, src/src/types.rs,    *)
(* src/src/error.rs): a call of a method of NftStorage, stepped from one   *)
(* await point to the next, against a remote pinning service; a second     *)
(* call on the same handle and other clients of the account where a        *)
(* specification says so.                                                  *)
(***************************************************************************)
EXTENDS Integers, Sequences, FiniteSets, TLC

VARIABLES
    handle,   \* the NftStorage struct: [url, token]
    op,       \* the method being called ("none" before the call)
    args,     \* the arguments of the call
    pc,       \* position of the call: "idle", an await point, "done"
    queue,    \* delete_all_nft: the entries of nfts.value not yet iterated
    net,      \* requests sent and not yet answered
    inbox,    \* the response the call is about to resume with
    sent,     \* every request issued so far, in order
    rcvd,     \* every response received so far, in order
    result,   \* what the call returned
    store,    \* the service's stored entries (cids), in listing order
    store0,   \* the service's store when the call started
    parked,   \* a second call on the same handle, while it is not running
    foreign   \* how many times other clients of the account have acted

vars == <<handle, op, args, pc, queue, net, inbox, sent, rcvd, result, store, store0,
          parked, foreign>>

(***************************************************************************)
(* Bounds of the model.                                                    *)
(***************************************************************************)
\* the adversarial service answers at most this many requests of one call
MaxResponses == 3
\* the well-behaved service starts with at most this many stored entries
MaxStore == 5
\* the well-behaved service puts at most this many entries in one page; it
\* stands for the 100 that delete_all_nft asks for
PageSize == 2
\* other clients of the account act at most this many times
MaxForeign == 2
\* with two calls on one handle, the service answers at most this many
\* requests of each call
MaxCallResponses == 3

(***************************************************************************)
(* serde_json::Value: tagged JSON values.                                  *)
(***************************************************************************)
JBool(b) == [t |-> "bool", b |-> b]
JStr(s) == [t |-> "str", s |-> s]
JArr(a) == [t |-> "arr", a |-> a]
JObj(o) == [t |-> "obj", o |-> o]

IsBool(j) == j.t = "bool"
IsStr(j) == j.t = "str"
IsArr(j) == j.t = "arr"
IsObj(j) == j.t = "obj"
Has(j, k) == k \in DOMAIN j.o

\* the outcome of a serde decode: a value or a serde_json::Error
Decoded(v) == [good |-> TRUE, val |-> v]
DecodeError == [good |-> FALSE]

(***************************************************************************)
(* types.rs: the response records and their decoders. serde decodes a      *)
(* struct from a JSON object by field name, or from a JSON array by field  *)
(* position. A struct marked #[serde(default)] takes the default of every  *)
(* absent field; one without the mark requires every field. Fields no      *)
(* method reads (size, created, type, scope, pin, deals) are left out of   *)
(* the records; the JSON values of the model hold no numbers, so an array  *)
(* that reaches the position of a numeric or struct field fails to decode. *)
(***************************************************************************)
DecodeBool(j) == IF IsBool(j) THEN Decoded(j.b) ELSE DecodeError

DecodeString(j) == IF IsStr(j) THEN Decoded(j.s) ELSE DecodeError

\* Files { name, file_type }, #[serde(default)]
DecodeFiles(j) ==
    IF IsObj(j)
    THEN LET n == IF Has(j, "name") THEN DecodeString(j.o.name) ELSE Decoded("")
         IN IF n.good THEN Decoded([name |-> n.val]) ELSE DecodeError
    ELSE IF IsArr(j)
    THEN IF Len(j.a) > 2 \/ \E i \in 1..Len(j.a) : ~IsStr(j.a[i]) THEN DecodeError
         ELSE Decoded([name |-> IF Len(j.a) >= 1 THEN j.a[1].s ELSE ""])
    ELSE DecodeError

\* Vec<Files>: every element must decode
DecodeVecFiles(j) ==
    IF ~IsArr(j) THEN DecodeError
    ELSE IF \E i \in 1..Len(j.a) : ~DecodeFiles(j.a[i]).good THEN DecodeError
    ELSE Decoded([i \in 1..Len(j.a) |-> DecodeFiles(j.a[i]).val])

\* Vec<String>
DecodeVecString(j) ==
    IF ~IsArr(j) THEN DecodeError
    ELSE IF \E i \in 1..Len(j.a) : ~IsStr(j.a[i]) THEN DecodeError
    ELSE Decoded([i \in 1..Len(j.a) |-> j.a[i].s])

\* Value::default()
DefaultValue == [cid |-> "", files |-> <<>>, link |-> <<>>]

\* Value { cid, size, .., files, deals, link }, #[serde(default)]
DecodeValue(j) ==
    IF IsObj(j)
    THEN LET c == IF Has(j, "cid") THEN DecodeString(j.o.cid) ELSE Decoded("")
             f == IF Has(j, "files") THEN DecodeVecFiles(j.o.files)
                  ELSE Decoded(<<>>)
             l == IF Has(j, "link") THEN DecodeVecString(j.o.link)
                  ELSE Decoded(<<>>)
         IN IF c.good /\ f.good /\ l.good
            THEN Decoded([cid |-> c.val, files |-> f.val, link |-> l.val])
            ELSE DecodeError
    ELSE IF IsArr(j)
    THEN IF Len(j.a) = 0 THEN Decoded(DefaultValue)
         ELSE IF Len(j.a) = 1 /\ IsStr(j.a[1])
         THEN Decoded([DefaultValue EXCEPT !.cid = j.a[1].s])
         ELSE DecodeError
    ELSE DecodeError

\* Vec<Value>
DecodeVecValue(j) ==
    IF ~IsArr(j) THEN DecodeError
    ELSE IF \E i \in 1..Len(j.a) : ~DecodeValue(j.a[i]).good THEN DecodeError
    ELSE Decoded([i \in 1..Len(j.a) |-> DecodeValue(j.a[i]).val])

\* ListNftResponse { ok, value: Vec<Value> }, #[serde(default)]
DecodeListNftResponse(j) ==
    LET present(k) == IF IsObj(j) THEN Has(j, k)
                      ELSE (IF k = "ok" THEN Len(j.a) >= 1 ELSE Len(j.a) >= 2)
        field(k) == IF IsObj(j) THEN j.o[k]
                    ELSE (IF k = "ok" THEN j.a[1] ELSE j.a[2])
        o == IF present("ok") THEN DecodeBool(field("ok")) ELSE Decoded(FALSE)
        v == IF present("value") THEN DecodeVecValue(field("value"))
             ELSE Decoded(<<>>)
    IN IF ~(IsObj(j) \/ IsArr(j)) THEN DecodeError
       ELSE IF IsArr(j) /\ Len(j.a) > 2 THEN DecodeError
       ELSE IF o.good /\ v.good THEN Decoded([ok |-> o.val, value |-> v.val])
       ELSE DecodeError

\* a struct { ok: bool, value: T } without #[serde(default)]: the JSON of
\* its two fields, or a decode error when one is missing
RequiredOkValue(j) ==
    IF IsObj(j) /\ Has(j, "ok") /\ Has(j, "value")
    THEN Decoded([ok |-> j.o.ok, value |-> j.o.value])
    ELSE IF IsArr(j) /\ Len(j.a) = 2
    THEN Decoded([ok |-> j.a[1], value |-> j.a[2]])
    ELSE DecodeError

\* StoreNftResponse { ok, value: Value }: both fields required
DecodeStoreNftResponse(j) ==
    LET r == RequiredOkValue(j)
    IN IF ~r.good THEN DecodeError
       ELSE IF DecodeBool(r.val.ok).good /\ DecodeValue(r.val.value).good
       THEN Decoded([ok |-> r.val.ok.b, value |-> DecodeValue(r.val.value).val])
       ELSE DecodeError

\* GetNftResponse { ok, value: Value }: both fields required
DecodeGetNftResponse(j) ==
    LET r == RequiredOkValue(j)
    IN IF ~r.good THEN DecodeError
       ELSE IF DecodeBool(r.val.ok).good /\ DecodeValue(r.val.value).good
       THEN Decoded([ok |-> r.val.ok.b, value |-> DecodeValue(r.val.value).val])
       ELSE DecodeError

\* DeleteNftResponse { ok }: required
DecodeDeleteNftResponse(j) ==
    IF IsObj(j) /\ Has(j, "ok") /\ IsBool(j.o.ok) THEN Decoded([ok |-> j.o.ok.b])
    ELSE IF IsArr(j) /\ Len(j.a) = 1 /\ IsBool(j.a[1]) THEN Decoded([ok |-> j.a[1].b])
    ELSE DecodeError

\* CheckNFTValue { cid, pin, deals }, #[serde(default)]
DecodeCheckNFTValue(j) ==
    IF IsObj(j)
    THEN LET c == IF Has(j, "cid") THEN DecodeString(j.o.cid) ELSE Decoded("")
         IN IF c.good THEN Decoded([cid |-> c.val]) ELSE DecodeError
    ELSE IF IsArr(j)
    THEN IF Len(j.a) = 0 THEN Decoded([cid |-> ""])
         ELSE IF Len(j.a) = 1 /\ IsStr(j.a[1]) THEN Decoded([cid |-> j.a[1].s])
         ELSE DecodeError
    ELSE DecodeError

\* CheckCidNftResponse { ok, value: CheckNFTValue }: both fields required
DecodeCheckCidNftResponse(j) ==
    LET r == RequiredOkValue(j)
    IN IF ~r.good THEN DecodeError
       ELSE IF DecodeBool(r.val.ok).good /\ DecodeCheckNFTValue(r.val.value).good
       THEN Decoded([ok |-> r.val.ok.b, value |-> DecodeCheckNFTValue(r.val.value).val])
       ELSE DecodeError

(***************************************************************************)
(* error.rs: NFTStorageError, and the Result a method returns.             *)
(***************************************************************************)
Ok(v) == [tag |-> "Ok", val |-> v]
\* #[from] reqwest::Error; cause is "send" (the request failed) or "body"
\* (the body could not be read as JSON)
InvalidRequest(cause) == [tag |-> "Err", variant |-> "InvalidRequest", cause |-> cause]
\* the decoding failure passed on through anyhow, as the fourth variant of
\* the enum
InvalidJsonThroughAnyhow == [tag |-> "Err", variant |-> "AnyhowError"]

\* #[from] serde_json::Error
InvalidJson == [tag |-> "Err", variant |-> "InvalidJson"]
ApiError(body) == [tag |-> "Err", variant |-> "ApiError", body |-> body]
NoResult == [tag |-> "none"]
Panicked == [tag |-> "panic"]

IsOk(r) == r.tag = "Ok"
IsErr(r) == r.tag = "Err"

(***************************************************************************)
(* Requests and responses.                                                 *)
(***************************************************************************)
None == [some |-> FALSE]
Some(v) == [some |-> TRUE, v |-> v]

\* request bodies: nothing, raw bytes, or a multipart form
NoBody == [kind |-> "none"]
RawBody(bytes) == [kind |-> "raw", bytes |-> bytes]
Multipart(parts) == [kind |-> "multipart", parts |-> parts]
\* Vec<u8>: the bytes of a caller's file, or serde_json::to_vec of a value
FileBytes(id) == [file |-> id]
ToVec(j) == [ser |-> j]

\* client.<method>(url).bearer_auth(token).body(..) / .multipart(..)
Request(method, url, token, body) ==
    [method |-> method, url |-> url, bearer |-> token, body |-> body]

\* a response: the send failed, or a status and a body came back; a body is
\* JSON text (wf, with the value it parses to) or anything else
TransportError == [kind |-> "transport_error"]
Http(status, body) == [kind |-> "http", status |-> status, body |-> body]
JsonBody(j) == [wf |-> TRUE, json |-> j]
NotJson == [wf |-> FALSE]

\* reqwest StatusCode::is_success, the range 200-299
IsSuccess(status) == status >= 200 /\ status =< 299

(***************************************************************************)
(* lib.rs: what each method makes of the response to its request.          *)
(***************************************************************************)
\* send().await? then response.json::<Value>().await?: the error either
\* raises, or the status flag and the body as a JSON value
Received(resp) ==
    IF resp.kind = "transport_error" THEN [good |-> FALSE, err |-> InvalidRequest("send")]
    ELSE IF ~resp.body.wf THEN [good |-> FALSE, err |-> InvalidRequest("body")]
    ELSE [good |-> TRUE, status |-> IsSuccess(resp.status), body |-> resp.body.json]

\* the links with the two gateways in the other order
LinksPublicFirst(cid) ==
    << "https://ipfs.io/ipfs/" \o cid,
       "https://" \o cid \o ".ipfs.dweb.link",
       "ipfs://" \o cid >>

\* the convenience links of list_all_stored_nft (filter off) and get_nft
Links(cid) ==
    << "https://" \o cid \o ".ipfs.dweb.link",
       "https://ipfs.io/ipfs/" \o cid,
       "ipfs://" \o cid >>

\* the convenience links of list_all_stored_nft with only_metadata
MetadataLinks(cid) ==
    << "https://" \o cid \o ".ipfs.dweb.link/metadata.json",
       "https://ipfs.io/ipfs/" \o cid \o "/metadata.json",
       "ipfs://" \o cid \o "/metadata.json" >>

\* the filter looking for metadata.json among all the files of the entry
HasMetadataFile(f) == \E i \in 1..Len(f.files) : f.files[i].name = "metadata.json"

\* the filter closure of list_all_stored_nft
IsMetadataEntry(f) == Len(f.files) >= 1 /\ f.files[1].name = "metadata.json"

\* into_iter().filter(p).collect()
RECURSIVE FilterMetadata(_)
FilterMetadata(value) ==
    IF value = <<>> THEN <<>>
    ELSE IF IsMetadataEntry(Head(value))
    THEN <<Head(value)>> \o FilterMetadata(Tail(value))
    ELSE FilterMetadata(Tail(value))

\* body.value after the only_metadata branch or the else branch
DecorateList(value, only_metadata) ==
    IF only_metadata
    THEN LET kept == FilterMetadata(value)
         IN [i \in 1..Len(kept) |-> [kept[i] EXCEPT !.link = MetadataLinks(kept[i].cid)]]
    ELSE [i \in 1..Len(value) |-> [value[i] EXCEPT !.link = Links(value[i].cid)]]

\* list_all_stored_nft from the response on
ListResult(resp, only_metadata) ==
    LET r == Received(resp)
    IN IF ~r.good THEN r.err
       ELSE IF ~r.status THEN ApiError(r.body)
       ELSE LET d == DecodeListNftResponse(r.body)
            IN IF ~d.good THEN InvalidJson
               ELSE Ok([ok |-> d.val.ok,
                        value |-> DecorateList(d.val.value, only_metadata)])

\* upload_file from the response on
UploadFileResult(resp) ==
    LET r == Received(resp)
    IN IF ~r.good THEN r.err
       ELSE IF r.status
       THEN (IF DecodeStoreNftResponse(r.body).good
             THEN Ok(DecodeStoreNftResponse(r.body).val) ELSE InvalidJson)
       ELSE ApiError(r.body)

\* upload_file_in_directory from the response on
UploadDirResult(resp) ==
    LET r == Received(resp)
    IN IF ~r.good THEN r.err
       ELSE IF r.status
       THEN (IF DecodeStoreNftResponse(r.body).good
             THEN Ok(DecodeStoreNftResponse(r.body).val) ELSE InvalidJson)
       ELSE ApiError(r.body)

\* delete_nft from the response on
DeleteResult(resp) ==
    LET r == Received(resp)
    IN IF ~r.good THEN r.err
       ELSE IF r.status
       THEN (IF DecodeDeleteNftResponse(r.body).good
             THEN Ok(DecodeDeleteNftResponse(r.body).val) ELSE InvalidJson)
       ELSE ApiError(r.body)

\* check_nft from the response on
CheckResult(resp) ==
    LET r == Received(resp)
    IN IF ~r.good THEN r.err
       ELSE IF r.status
       THEN (IF DecodeCheckCidNftResponse(r.body).good
             THEN Ok(DecodeCheckCidNftResponse(r.body).val) ELSE InvalidJson)
       ELSE ApiError(r.body)

\* get_nft from the response on
GetResult(resp) ==
    LET r == Received(resp)
    IN IF ~r.good THEN r.err
       ELSE IF ~r.status THEN ApiError(r.body)
       ELSE LET d == DecodeGetNftResponse(r.body)
            IN IF ~d.good THEN InvalidJson
               ELSE Ok([ok |-> d.val.ok,
                        value |-> [d.val.value EXCEPT !.link = Links(d.val.value.cid)]])

(***************************************************************************)
(* lib.rs: the requests each method builds.                                *)
(***************************************************************************)
\* if let Some(value) = x { value.to_string() } else { "".to_string() }
OrEmpty(x) == IF x.some THEN x.v ELSE ""

ListRequest(h, before, limit) ==
    Request("GET", h.url \o "/?before=" \o OrEmpty(before) \o "&limit=" \o OrEmpty(limit),
            h.token, NoBody)

UploadFileRequest(h, file) == Request("POST", h.url \o "/upload", h.token, RawBody(file))

\* one part per element of files, named "file", with file name file_names[i]
FormParts(files, file_names) ==
    [i \in 1..Len(files) |->
        [name |-> "file", file_name |-> file_names[i], bytes |-> files[i]]]

UploadDirRequest(h, files, file_names) ==
    Request("POST", h.url \o "/upload", h.token, Multipart(FormParts(files, file_names)))

\* file_names[index] with index beyond the list: the indexing panics
UploadDirPanics(files, file_names) == Len(files) > Len(file_names)

\* the DELETE sent without the bearer token
DeleteRequestWithoutToken(h, cid) == Request("DELETE", h.url \o "/" \o cid, "", NoBody)

DeleteRequest(h, cid) == Request("DELETE", h.url \o "/" \o cid, h.token, NoBody)

GetRequest(h, cid) == Request("GET", h.url \o "/" \o cid, h.token, NoBody)

CheckRequest(h, cid) == Request("GET", h.url \o "/check/" \o cid, h.token, NoBody)

\* the metadata with name and description taken from each other's argument
StoreNftMetadataSwapped(cid, nft_name, description) ==
    JObj([name |-> JStr(description), description |-> JStr(nft_name), files |-> JStr(cid)])

\* store_nft: json!({"name": .., "description": .., "files": cid})
StoreNftMetadata(cid, nft_name, description) ==
    JObj([name |-> JStr(nft_name), description |-> JStr(description), files |-> JStr(cid)])

\* the links built from the file names alone, without the directory cid
FileCidsWithoutDir(cid, files) ==
    [i \in 1..Len(files) |-> "ipfs://" \o files[i].name]

\* store_nft_in_directory: the ipfs link of every uploaded file
FileCids(cid, files) ==
    [i \in 1..Len(files) |-> "ipfs://" \o cid \o "/" \o files[i].name]

\* store_nft_in_directory: json!({"name": .., "description": .., "files": file_cids})
StoreDirMetadata(cid, files, nft_name, description) ==
    LET file_cids == FileCids(cid, files)
    IN JObj([name |-> JStr(nft_name), description |-> JStr(description),
             files |-> JArr([i \in 1..Len(file_cids) |-> JStr(file_cids[i])])])

\* the break taken one entry early: a page of one entry counts as empty
NoNftStoredOffByOne(nfts) == nfts.ok /\ Len(nfts.value) <= 1

\* the break written with < for <=: it never holds
NoNftStoredStrict(nfts) == nfts.ok /\ Len(nfts.value) < 0

\* delete_all_nft: the condition of the break
NoNftStored(nfts) == nfts.ok /\ Len(nfts.value) <= 0

(***************************************************************************)
(* The inputs of the model: the handles, the arguments of the calls and    *)
(* the responses the service may give.                                     *)
(***************************************************************************)
Handles ==
    { [url |-> "https://api.nft.storage", token |-> "tokenA"],
      [url |-> "http://localhost:8787", token |-> "tokenB"] }

CidArgs == {"bafyA", "bafyB"}
BeforeArgs == {None, Some("2021-12-01T08:52:33")}
LimitArgs == {None, Some("7")}
FileArgs == {FileBytes("f1"), FileBytes("f2")}
NameArgs == {"My NFT", "Other"}
DescriptionArgs == {"My NFT description"}
\* files and file_names of the directory uploads; the last pair has more
\* files than names
DirArgs ==
    { [files |-> <<>>, file_names |-> <<>>],
      [files |-> <<FileBytes("f1")>>, file_names |-> <<"nft.txt">>],
      [files |-> <<FileBytes("f1"), FileBytes("f2")>>,
       file_names |-> <<"hello.txt", "ciao.txt", "spare.txt">>],
      [files |-> <<FileBytes("f1"), FileBytes("f2")>>, file_names |-> <<"hello.txt">>] }

\* entries as the service sends them
EntryA ==
    JObj([cid |-> JStr("a"), files |-> JArr(<<JObj([name |-> JStr("metadata.json")])>>),
          link |-> JArr(<<JStr("from-server")>>)])
EntryB == JObj([cid |-> JStr("b"), files |-> JArr(<<>>)])
EntryC ==
    JObj([cid |-> JStr("c"),
          files |-> JArr(<<JObj([name |-> JStr("x.png")]),
                           JObj([name |-> JStr("metadata.json")])>>)])
EntryD == JObj([cid |-> JStr("d"), files |-> JArr(<<JObj([name |-> JStr("metadata.json")])>>)])

Envelope(ok, value) == JObj([ok |-> JBool(ok), value |-> value])

Bodies ==
    { NotJson,
      JsonBody(JObj(<<>>)),
      JsonBody(JObj([ok |-> JBool(FALSE), error |-> JStr("not found")])),
      JsonBody(JObj([ok |-> JBool(TRUE)])),
      JsonBody(JObj([ok |-> JStr("yes")])),
      JsonBody(Envelope(TRUE, JArr(<<>>))),
      JsonBody(Envelope(FALSE, JArr(<<>>))),
      JsonBody(Envelope(TRUE, JArr(<<EntryA>>))),
      JsonBody(Envelope(TRUE, JArr(<<EntryB, EntryA>>))),
      JsonBody(Envelope(TRUE, JArr(<<EntryA, EntryB, EntryC, EntryD>>))),
      JsonBody(Envelope(TRUE, EntryA)),
      JsonBody(Envelope(TRUE, EntryC)) }

StatusCodes == {200, 299, 300, 404}

Responses == {TransportError} \cup {Http(s, b) : s \in StatusCodes, b \in Bodies}

(***************************************************************************)
(* The calls. A call runs from its start to its first send().await, and    *)
(* then from each response to the next send().await or to its return.      *)
(***************************************************************************)
\* a call that has not started
NoCall ==
    [op |-> "none", args |-> <<>>, pc |-> "idle", queue |-> <<>>, net |-> <<>>,
     inbox |-> None, sent |-> <<>>, rcvd |-> <<>>, result |-> NoResult]

Init ==
    /\ handle \in Handles
    /\ op = "none"
    /\ args = <<>>
    /\ pc = "idle"
    /\ queue = <<>>
    /\ net = <<>>
    /\ inbox = None
    /\ sent = <<>>
    /\ rcvd = <<>>
    /\ result = NoResult
    /\ store = <<>>
    /\ store0 = <<>>
    /\ parked = NoCall
    /\ foreign = 0

\* send(): the request goes out and the call awaits its response
Issue(req) ==
    /\ net' = Append(net, req)
    /\ sent' = Append(sent, req)

\* the call returns r
Return(r) ==
    /\ result' = r
    /\ pc' = "done"
    /\ UNCHANGED <<net, sent>>

\* a call that mem::take()s the token of the handle for its own requests
StartTakingToken(name, a) ==
    /\ pc = "idle"
    /\ op' = name
    /\ args' = a
    /\ handle' = [handle EXCEPT !.token = ""]
    /\ UNCHANGED <<queue, inbox, rcvd, store, store0, parked, foreign>>

Start(name, a) ==
    /\ pc = "idle"
    /\ op' = name
    /\ args' = a
    /\ UNCHANGED <<handle, queue, inbox, rcvd, store, store0, parked, foreign>>

\* the awaited response is taken
Resume(at) ==
    /\ pc = at
    /\ inbox.some
    /\ inbox' = None
    /\ UNCHANGED <<handle, op, args, rcvd, store, store0, parked, foreign>>

CallList ==
    \E before \in BeforeArgs, limit \in LimitArgs, only_metadata \in BOOLEAN :
        /\ Start("list_all_stored_nft", [before |-> before, limit |-> limit,
                                         only_metadata |-> only_metadata])
        /\ Issue(ListRequest(handle, before, limit))
        /\ pc' = "list"
        /\ UNCHANGED result

ListReturn ==
    /\ Resume("list")
    /\ Return(ListResult(inbox.v, args.only_metadata))
    /\ UNCHANGED queue

CallUploadFile ==
    \E file \in FileArgs :
        /\ Start("upload_file", [file |-> file])
        /\ Issue(UploadFileRequest(handle, file))
        /\ pc' = "upload_file"
        /\ UNCHANGED result

UploadFileReturn ==
    /\ Resume("upload_file")
    /\ Return(UploadFileResult(inbox.v))
    /\ UNCHANGED queue

CallUploadDir ==
    \E d \in DirArgs :
        /\ Start("upload_file_in_directory", d)
        /\ IF UploadDirPanics(d.files, d.file_names)
           THEN Return(Panicked)
           ELSE /\ Issue(UploadDirRequest(handle, d.files, d.file_names))
                /\ pc' = "upload_dir"
                /\ UNCHANGED result

UploadDirReturn ==
    /\ Resume("upload_dir")
    /\ Return(UploadDirResult(inbox.v))
    /\ UNCHANGED queue

CallGet ==
    \E cid \in CidArgs :
        /\ Start("get_nft", [cid |-> cid])
        /\ Issue(GetRequest(handle, cid))
        /\ pc' = "get"
        /\ UNCHANGED result

GetReturn ==
    /\ Resume("get")
    /\ Return(GetResult(inbox.v))
    /\ UNCHANGED queue

CallCheck ==
    \E cid \in CidArgs :
        /\ Start("check_nft", [cid |-> cid])
        /\ Issue(CheckRequest(handle, cid))
        /\ pc' = "check"
        /\ UNCHANGED result

CheckReturn ==
    /\ Resume("check")
    /\ Return(CheckResult(inbox.v))
    /\ UNCHANGED queue

CallDelete ==
    \E cid \in CidArgs :
        /\ Start("delete_nft", [cid |-> cid])
        /\ Issue(DeleteRequest(handle, cid))
        /\ pc' = "delete"
        /\ UNCHANGED result

DeleteReturn ==
    /\ Resume("delete")
    /\ Return(DeleteResult(inbox.v))
    /\ UNCHANGED queue

(***************************************************************************)
(* store_nft: upload_file(file), then upload_file(metadata bytes).         *)
(***************************************************************************)
CallStoreNft ==
    \E file \in FileArgs, nft_name \in NameArgs, description \in DescriptionArgs :
        /\ Start("store_nft", [file |-> file, nft_name |-> nft_name,
                               description |-> description])
        /\ Issue(UploadFileRequest(handle, file))
        /\ pc' = "store_nft_1"
        /\ UNCHANGED result

\* the first upload_file(..).await? returned
StoreNftOnFirst ==
    /\ Resume("store_nft_1")
    /\ LET response == UploadFileResult(inbox.v)
       IN IF IsErr(response)
          THEN Return(response)
          ELSE LET metadata == StoreNftMetadata(response.val.value.cid,
                                                args.nft_name, args.description)
               IN /\ Issue(UploadFileRequest(handle, ToVec(metadata)))
                  /\ pc' = "store_nft_2"
                  /\ UNCHANGED result
    /\ UNCHANGED queue

\* store_nft undoing its first upload when the second one fails
StoreNftOnSecondRollingBack ==
    /\ Resume("store_nft_2")
    /\ LET response == UploadFileResult(inbox.v)
       IN IF IsErr(response)
          THEN /\ Issue(DeleteRequest(handle,
                      DecodeStoreNftResponse(rcvd[1].body.json).val.value.cid))
               /\ result' = response
               /\ pc' = "done"
          ELSE Return(response)
    /\ UNCHANGED queue

\* the second upload_file(..).await? returned
StoreNftOnSecond ==
    /\ Resume("store_nft_2")
    /\ Return(UploadFileResult(inbox.v))
    /\ UNCHANGED queue

(***************************************************************************)
(* store_nft_in_directory: upload_file_in_directory(files, file_names),    *)
(* then upload_file_in_directory of the one file metadata.json.            *)
(***************************************************************************)
CallStoreDir ==
    \E d \in DirArgs, nft_name \in NameArgs, description \in DescriptionArgs :
        /\ Start("store_nft_in_directory",
                 [files |-> d.files, file_names |-> d.file_names,
                  nft_name |-> nft_name, description |-> description])
        /\ IF UploadDirPanics(d.files, d.file_names)
           THEN Return(Panicked)
           ELSE /\ Issue(UploadDirRequest(handle, d.files, d.file_names))
                /\ pc' = "store_dir_1"
                /\ UNCHANGED result

StoreDirOnFirst ==
    /\ Resume("store_dir_1")
    /\ LET response == UploadDirResult(inbox.v)
       IN IF IsErr(response)
          THEN Return(response)
          ELSE LET metadata == StoreDirMetadata(response.val.value.cid,
                                                response.val.value.files,
                                                args.nft_name, args.description)
               IN /\ Issue(UploadDirRequest(handle, <<ToVec(metadata)>>,
                                            <<"metadata.json">>))
                  /\ pc' = "store_dir_2"
                  /\ UNCHANGED result
    /\ UNCHANGED queue

StoreDirOnSecond ==
    /\ Resume("store_dir_2")
    /\ Return(UploadDirResult(inbox.v))
    /\ UNCHANGED queue

(***************************************************************************)
(* delete_all_nft: loop { list; break if ok and empty; delete each }.      *)
(***************************************************************************)
CallDeleteAll ==
    /\ Start("delete_all_nft", <<>>)
    /\ Issue(ListRequest(handle, None, Some("100")))
    /\ pc' = "delete_all_list"
    /\ UNCHANGED result

\* the deletes of a page sent all at once instead of one after the other
DeleteAllOnListFanOut ==
    /\ Resume("delete_all_list")
    /\ LET nfts == ListResult(inbox.v, FALSE)
       IN IF IsErr(nfts)
          THEN Return(nfts) /\ UNCHANGED queue
          ELSE IF NoNftStored(nfts.val)
          THEN Return(Ok([ok |-> TRUE])) /\ UNCHANGED queue
          ELSE IF nfts.val.value = <<>>
          THEN /\ Issue(ListRequest(handle, None, Some("100")))
               /\ UNCHANGED <<pc, result, queue>>
          ELSE LET deletes == [i \in 1..Len(nfts.val.value) |->
                                  DeleteRequest(handle, nfts.val.value[i].cid)]
               IN /\ queue' = nfts.val.value
                  /\ net' = net \o deletes
                  /\ sent' = sent \o deletes
                  /\ pc' = "delete_all_delete"
                  /\ UNCHANGED result

\* list_all_stored_nft(None, Some("100"), false).await? returned
DeleteAllOnList ==
    /\ Resume("delete_all_list")
    /\ LET nfts == ListResult(inbox.v, FALSE)
       IN IF IsErr(nfts)
          THEN Return(nfts) /\ UNCHANGED queue
          ELSE IF NoNftStored(nfts.val)
          THEN Return(Ok([ok |-> TRUE])) /\ UNCHANGED queue
          ELSE IF nfts.val.value = <<>>
          THEN \* the for loop has nothing to do: the next turn of the loop
               /\ Issue(ListRequest(handle, None, Some("100")))
               /\ UNCHANGED <<pc, result, queue>>
          ELSE /\ queue' = nfts.val.value
               /\ Issue(DeleteRequest(handle, nfts.val.value[1].cid))
               /\ pc' = "delete_all_delete"
               /\ UNCHANGED result

\* the loop going on to the next entry whatever the delete returned
DeleteAllOnDeleteIgnoringErrors ==
    /\ Resume("delete_all_delete")
    /\ queue' = Tail(queue)
    /\ UNCHANGED result
    /\ IF Tail(queue) = <<>>
       THEN /\ Issue(ListRequest(handle, None, Some("100")))
            /\ pc' = "delete_all_list"
       ELSE /\ Issue(DeleteRequest(handle, Tail(queue)[1].cid))
            /\ UNCHANGED pc

\* delete_nft(&e.cid).await? returned
DeleteAllOnDelete ==
    /\ Resume("delete_all_delete")
    /\ LET deleted == DeleteResult(inbox.v)
       IN IF IsErr(deleted)
          THEN Return(deleted) /\ UNCHANGED queue
          ELSE /\ queue' = Tail(queue)
               /\ UNCHANGED result
               /\ IF Tail(queue) = <<>>
                  THEN /\ Issue(ListRequest(handle, None, Some("100")))
                       /\ pc' = "delete_all_list"
                  ELSE /\ Issue(DeleteRequest(handle, Tail(queue)[1].cid))
                       /\ UNCHANGED pc

(***************************************************************************)
(* The service. ServerRespond answers the oldest request in flight with    *)
(* any response at all.                                                    *)
(***************************************************************************)
Deliver(resp) ==
    /\ net # <<>>
    /\ ~inbox.some
    /\ net' = Tail(net)
    /\ inbox' = Some(resp)
    /\ rcvd' = Append(rcvd, resp)
    /\ UNCHANGED <<handle, op, args, pc, queue, sent, result, store0, parked, foreign>>

ServerRespond ==
    /\ Len(rcvd) < MaxResponses
    /\ \E resp \in Responses : Deliver(resp)
    /\ UNCHANGED store

Next ==
    \/ CallList \/ ListReturn
    \/ CallUploadFile \/ UploadFileReturn
    \/ CallUploadDir \/ UploadDirReturn
    \/ CallGet \/ GetReturn
    \/ CallCheck \/ CheckReturn
    \/ CallDelete \/ DeleteReturn
    \/ CallStoreNft \/ StoreNftOnFirst \/ StoreNftOnSecond
    \/ CallStoreDir \/ StoreDirOnFirst \/ StoreDirOnSecond
    \/ CallDeleteAll \/ DeleteAllOnList \/ DeleteAllOnDelete
    \/ ServerRespond

Spec == Init /\ [][Next]_vars

(***************************************************************************)
(* The service as delete_all_nft expects it: every request succeeds, a     *)
(* list answers with the first entries of the store up to the limit asked  *)
(* for, a delete removes the entry, and nobody else touches the store.     *)
(***************************************************************************)
CidOf(i) == "bafy" \o ToString(i)

StoreOfSize(n) == [i \in 1..n |-> CidOf(i)]

\* the store without its i-th entry
RemoveAt(st, i) == [k \in 1..(Len(st) - 1) |-> IF k < i THEN st[k] ELSE st[k + 1]]

\* the first entries of the store, at most PageSize of them
FirstPage(st) ==
    LET n == IF Len(st) < PageSize THEN Len(st) ELSE PageSize
    IN [i \in 1..n |-> JObj([cid |-> JStr(st[i]), files |-> JArr(<<>>)])]

IsPageRequest(req) ==
    /\ req.method = "GET"
    /\ req.url = handle.url \o "/?before=&limit=100"

IsDeleteOf(req, cid) ==
    /\ req.method = "DELETE"
    /\ req.url = handle.url \o "/" \o cid

StoreRespond ==
    /\ net # <<>>
    /\ LET req == Head(net)
       IN \/ /\ IsPageRequest(req)
             /\ Deliver(Http(200, JsonBody(Envelope(TRUE, JArr(FirstPage(store))))))
             /\ UNCHANGED store
          \/ \E i \in 1..Len(store) :
                /\ IsDeleteOf(req, store[i])
                /\ Deliver(Http(200, JsonBody(JObj([ok |-> JBool(TRUE)]))))
                /\ store' = RemoveAt(store, i)

InitStore ==
    /\ handle \in Handles
    /\ op = "none"
    /\ args = <<>>
    /\ pc = "idle"
    /\ queue = <<>>
    /\ net = <<>>
    /\ inbox = None
    /\ sent = <<>>
    /\ rcvd = <<>>
    /\ result = NoResult
    /\ store \in {StoreOfSize(n) : n \in 0..MaxStore}
    /\ store0 = store
    /\ parked = NoCall
    /\ foreign = 0

NextStore ==
    \/ CallDeleteAll
    \/ DeleteAllOnList
    \/ DeleteAllOnDelete
    \/ StoreRespond

\* the runtime polls the call until it returns and the service answers every
\* request
SpecStore == InitStore /\ [][NextStore]_vars /\ WF_vars(NextStore)

(***************************************************************************)
(* The claims.                                                             *)
(***************************************************************************)
LastResponse == rcvd[Len(rcvd)]

\* the call has returned and the last response it received was an HTTP
\* response
ReturnedOnHttp == pc = "done" /\ rcvd # <<>> /\ LastResponse.kind = "http"

\* C1: in every operation, a response whose status is outside 200-299 makes
\* the call return ApiError carrying the body of that response, whatever
\* the body is.
C1_NonSuccessReturnsApiError ==
    (ReturnedOnHttp /\ ~(LastResponse.status \in 200..299)) =>
        /\ IsErr(result)
        /\ result.variant = "ApiError"
        /\ LastResponse.body.wf => result.body = LastResponse.body.json

\* C2: in every operation, a 2xx response whose body is malformed JSON makes
\* the call return InvalidJson, not InvalidRequest and not ApiError.
C2_MalformedJsonReturnsInvalidJson ==
    (ReturnedOnHttp /\ LastResponse.status \in 200..299 /\ ~LastResponse.body.wf) =>
        /\ IsErr(result)
        /\ result.variant = "InvalidJson"

\* delete_all_nft is about to resume with a 2xx list response that decodes
\* to a page of zero entries
ResumesWithEmptyPage ==
    /\ pc = "delete_all_list"
    /\ inbox.some
    /\ inbox.v.kind = "http"
    /\ inbox.v.status \in 200..299
    /\ inbox.v.body.wf
    /\ DecodeListNftResponse(inbox.v.body.json).good
    /\ DecodeListNftResponse(inbox.v.body.json).val.value = <<>>

\* the ok flag of that page
EmptyPageOk == DecodeListNftResponse(inbox.v.body.json).val.ok

\* delete_all_nft stops here: it returns {ok: true} and sends nothing
StopsWithOk ==
    /\ pc' = "done"
    /\ result' = Ok([ok |-> TRUE])
    /\ sent' = sent
    /\ net' = <<>>

\* C3 as stated: a 2xx list response with zero entries stops delete_all_nft
\* with {ok: true} and no further request, whatever its ok flag.
C3_EmptyPageStopsWhateverOk ==
    [][ResumesWithEmptyPage => StopsWithOk]_vars

\* C3 as amended: a 2xx list response with zero entries and ok = true stops
\* delete_all_nft with {ok: true} and no further request; with ok false or
\* absent the call sends the same list request again.
C3_OkEmptyPageStops ==
    [][ResumesWithEmptyPage =>
          IF EmptyPageOk THEN StopsWithOk
          ELSE /\ pc' = "delete_all_list"
               /\ result' = NoResult
               /\ sent' = Append(sent, sent[Len(sent)])]_vars

\* delete_all_nft has returned {ok: true} on an empty page with ok = true
C3_Witness ==
    /\ op = "delete_all_nft"
    /\ pc = "done"
    /\ result = Ok([ok |-> TRUE])
    /\ LastResponse.kind = "http"
    /\ LastResponse.body.wf
    /\ DecodeListNftResponse(LastResponse.body.json).val = [ok |-> TRUE, value |-> <<>>]

\* the number of DELETE requests sent for cid
DeletesOf(cid) == Cardinality({k \in 1..Len(sent) : IsDeleteOf(sent[k], cid)})

\* C4: against a service where every request succeeds, a delete removes its
\* entry and nobody else touches the store, delete_all_nft eventually
\* returns {ok: true}, and then the store is empty and every entry of the
\* initial store was the target of exactly one DELETE request; also for a
\* store of more than one page.
C4_DeleteAllEmptiesStore ==
    /\ <>(pc = "done")
    /\ [](pc = "done" =>
            /\ result = Ok([ok |-> TRUE])
            /\ store = <<>>
            /\ \A i \in 1..Len(store0) : DeletesOf(store0[i]) = 1)

\* delete_all_nft has returned from a store of more than one page
C4_Witness ==
    /\ op = "delete_all_nft"
    /\ pc = "done"
    /\ Len(store0) > PageSize
    /\ store = <<>>
    /\ Len(sent) > Len(store0)

\* the first upload of a store composition came back and was a success
FirstUploadSucceeded ==
    /\ rcvd # <<>>
    /\ rcvd[1].kind = "http"
    /\ rcvd[1].status \in 200..299
    /\ rcvd[1].body.wf
    /\ DecodeStoreNftResponse(rcvd[1].body.json).good

\* what the first upload returned
FirstUpload == DecodeStoreNftResponse(rcvd[1].body.json).val

IsUploadPost(req) == req.method = "POST" /\ req.url = handle.url \o "/upload"

\* C5: a store_nft call whose first upload succeeds issues exactly two POST
\* /upload requests, the second after the first's response; the body of the
\* second is the JSON object {name, description, files} with files the cid
\* the first upload returned and name and description the caller's; the
\* call returns what the second upload returns.
C5_StoreNftTwoUploads ==
    op = "store_nft" =>
        /\ Len(sent) <= 2
        /\ Len(sent) = 2 => FirstUploadSucceeded
        /\ (FirstUploadSucceeded /\ pc # "store_nft_1") =>
              /\ Len(sent) = 2
              /\ IsUploadPost(sent[1]) /\ IsUploadPost(sent[2])
              /\ sent[1].body = RawBody(args.file)
              /\ sent[2].body =
                    RawBody(ToVec(JObj([name |-> JStr(args.nft_name),
                                        description |-> JStr(args.description),
                                        files |-> JStr(FirstUpload.value.cid)])))
        /\ (FirstUploadSucceeded /\ pc = "done") =>
              /\ Len(rcvd) = 2
              /\ result = UploadFileResult(rcvd[2])

\* store_nft has returned the second upload's success, and the cid of the
\* first upload was not empty
C5_Witness ==
    /\ op = "store_nft"
    /\ pc = "done"
    /\ Len(sent) = 2
    /\ IsOk(result)
    /\ FirstUpload.value.cid = "c"

\* the JSON in the one part of the second request of store_nft_in_directory
DirMetadata == sent[2].body.parts[1].bytes.ser

\* C6: a store_nft_in_directory call whose first upload succeeds issues
\* exactly two multipart POST /upload requests in sequence; the second has
\* exactly one part, with file name metadata.json, whose JSON files field
\* lists, for every file entry of the first upload's response and in the
\* same order, ipfs://<cid>/<name>.
C6_StoreDirTwoUploads ==
    op = "store_nft_in_directory" =>
        /\ Len(sent) <= 2
        /\ Len(sent) = 2 => FirstUploadSucceeded
        /\ (FirstUploadSucceeded /\ pc # "store_dir_1") =>
              /\ Len(sent) = 2
              /\ \A k \in 1..2 : IsUploadPost(sent[k]) /\ sent[k].body.kind = "multipart"
              /\ Len(sent[2].body.parts) = 1
              /\ sent[2].body.parts[1].file_name = "metadata.json"
              /\ DirMetadata.o.name = JStr(args.nft_name)
              /\ DirMetadata.o.description = JStr(args.description)
              /\ IsArr(DirMetadata.o.files)
              /\ Len(DirMetadata.o.files.a) = Len(FirstUpload.value.files)
              /\ \A i \in 1..Len(FirstUpload.value.files) :
                    DirMetadata.o.files.a[i] =
                        JStr("ipfs://" \o FirstUpload.value.cid \o "/"
                             \o FirstUpload.value.files[i].name)

\* store_nft_in_directory sent its metadata.json for a directory of two files
C6_Witness ==
    /\ op = "store_nft_in_directory"
    /\ pc = "done"
    /\ Len(sent) = 2
    /\ Len(FirstUpload.value.files) = 2
    /\ DirMetadata.o.files.a[1] = JStr("ipfs://c/x.png")
    /\ DirMetadata.o.files.a[2] = JStr("ipfs://c/metadata.json")

\* the page a successful list call decoded, as the service sent it
ListedPage == DecodeListNftResponse(rcvd[1].body.json).val.value

ListReturnedOk == op = "list_all_stored_nft" /\ pc = "done" /\ IsOk(result)

\* the positions of the page whose entry has a first file named metadata.json
MetadataPositions ==
    {i \in 1..Len(ListedPage) :
        Len(ListedPage[i].files) > 0 /\ ListedPage[i].files[1].name = "metadata.json"}

\* the k-th of those positions, in page order
MetadataPosition(k) ==
    CHOOSE i \in MetadataPositions :
        Cardinality({j \in MetadataPositions : j <= i}) = k

\* C7: list_all_stored_nft with only_metadata = true returns exactly the
\* subsequence, in server order, of the entries of the page whose files list
\* is non-empty and whose first file is named metadata.json.
C7_OnlyMetadataIsSubsequence ==
    (ListReturnedOk /\ args.only_metadata) =>
        /\ Len(result.val.value) = Cardinality(MetadataPositions)
        /\ \A k \in 1..Len(result.val.value) :
              LET got == result.val.value[k]
                  from == ListedPage[MetadataPosition(k)]
              IN got.cid = from.cid /\ got.files = from.files

\* a filtered list call kept the first and the last entry of a page of
\* four, dropping one without files and one whose second file is
\* metadata.json
C7_Witness ==
    /\ ListReturnedOk
    /\ args.only_metadata
    /\ Len(ListedPage) = 4
    /\ ListedPage[2].files = <<>>
    /\ Len(result.val.value) = 2
    /\ result.val.value[1].cid = "a"
    /\ result.val.value[2].cid = "d"

\* the three links the claim names for identifier x
PlainLinks(x) ==
    << "https://" \o x \o ".ipfs.dweb.link", "https://ipfs.io/ipfs/" \o x, "ipfs://" \o x >>

\* the links of the filtered list: the same three with /metadata.json added
SuffixedLinks(x) ==
    << "https://" \o x \o ".ipfs.dweb.link/metadata.json",
       "https://ipfs.io/ipfs/" \o x \o "/metadata.json",
       "ipfs://" \o x \o "/metadata.json" >>

GetReturnedOk == op = "get_nft" /\ pc = "done" /\ IsOk(result)

\* C8 as stated: every entry returned by list_all_stored_nft, filter on or
\* off, or by get_nft has link = the three plain links of its cid.
C8_LinksArePlain ==
    /\ ListReturnedOk =>
          \A k \in 1..Len(result.val.value) :
              result.val.value[k].link = PlainLinks(result.val.value[k].cid)
    /\ GetReturnedOk => result.val.value.link = PlainLinks(result.val.value.cid)

\* C8 as amended: with the filter off, and for get_nft, link is the three
\* plain links of the entry's cid; with the filter on it is the same three
\* with /metadata.json appended; either way the link the service sent is
\* replaced.
C8_LinksByFilter ==
    /\ ListReturnedOk =>
          \A k \in 1..Len(result.val.value) :
              result.val.value[k].link =
                  IF args.only_metadata THEN SuffixedLinks(result.val.value[k].cid)
                  ELSE PlainLinks(result.val.value[k].cid)
    /\ GetReturnedOk => result.val.value.link = PlainLinks(result.val.value.cid)

\* an unfiltered list call returned an entry for which the service had sent
\* a link of its own
C8_Witness ==
    /\ ListReturnedOk
    /\ ~args.only_metadata
    /\ Len(result.val.value) >= 1
    /\ ListedPage[1].link = <<"from-server">>
    /\ result.val.value[1].link = <<"https://a.ipfs.dweb.link", "https://ipfs.io/ipfs/a", "ipfs://a">>

\* what the method awaited at pc makes of the response in the inbox
Awaited ==
    CASE pc = "list" -> ListResult(inbox.v, args.only_metadata)
      [] pc = "delete_all_list" -> ListResult(inbox.v, FALSE)
      [] pc \in {"upload_file", "store_nft_1", "store_nft_2"} -> UploadFileResult(inbox.v)
      [] pc \in {"upload_dir", "store_dir_1", "store_dir_2"} -> UploadDirResult(inbox.v)
      [] pc \in {"delete", "delete_all_delete"} -> DeleteResult(inbox.v)
      [] pc = "get" -> GetResult(inbox.v)
      [] pc = "check" -> CheckResult(inbox.v)
      [] OTHER -> NoResult

\* the request just answered failed: transport error, decode error or non-2xx
RequestFailed == inbox.some /\ IsErr(Awaited)

\* C9: in every operation the first request that fails (transport error,
\* decode error or non-2xx) makes the operation return that same error, and
\* the operation issues no request after it.
C9_FailureReturnsAtOnce ==
    /\ [][RequestFailed =>
            /\ result' = Awaited
            /\ pc' = "done"
            /\ sent' = sent
            /\ net' = <<>>]_vars
    /\ [][pc = "done" => (pc' = "done" /\ sent' = sent /\ result' = result)]_vars

\* delete_all_nft returned the error of a delete it sent after a list
C9_Witness ==
    /\ op = "delete_all_nft"
    /\ pc = "done"
    /\ Len(sent) = 2
    /\ sent[2].method = "DELETE"
    /\ result = DeleteResult(rcvd[2])
    /\ IsErr(result)

\* C10: within one call the requests are strictly serial: at most one
\* request is in flight, and a request is issued only when every earlier
\* one has been answered and the call is resuming with the last response.
C10_RequestsAreSerial ==
    /\ [](Len(net) <= 1)
    /\ [][Len(sent') > Len(sent) =>
            /\ Len(sent') = Len(sent) + 1
            /\ net = <<>>
            /\ Len(rcvd) = Len(sent)
            /\ sent # <<>> => inbox.some]_vars

\* delete_all_nft has its third request in flight, two responses received
C10_Witness ==
    /\ op = "delete_all_nft"
    /\ Len(sent) = 3
    /\ Len(rcvd) = 2
    /\ Len(net) = 1
    /\ sent[3].method = "DELETE"

(***************************************************************************)
(* C11: the token and the base URL of every request.                       *)
(***************************************************************************)
\* the url begins with the base url of the handle, followed by a path
TargetsBaseUrl(req) ==
    /\ Len(req.url) > Len(handle.url)
    /\ SubSeq(req.url, 1, Len(handle.url) + 1) = handle.url \o "/"

\* C11: every request issued by any operation, the inner requests of
\* store_nft, store_nft_in_directory and delete_all_nft included, carries
\* the bearer token of the handle and targets the base URL of the handle.
C11_RequestsCarryHandle ==
    \A k \in 1..Len(sent) :
        /\ sent[k].bearer = handle.token
        /\ TargetsBaseUrl(sent[k])

\* delete_all_nft has issued a list, a DELETE and a list again, and
\* store_nft_in_directory its two uploads
C11_Witness ==
    \/ /\ op = "delete_all_nft"
       /\ Len(sent) = 3
       /\ sent[2].method = "DELETE"
       /\ handle.token = "tokenB"
    \/ /\ op = "store_nft_in_directory"
       /\ Len(sent) = 2
       /\ handle.token = "tokenB"

(***************************************************************************)
(* C13: the one multipart POST of upload_file_in_directory.                *)
(***************************************************************************)
\* the multipart body has one part per element of files, in input order,
\* part i carrying files[i] under the file name file_names[i]
OnePartPerFile(req, files, file_names) ==
    /\ req.body.kind = "multipart"
    /\ Len(req.body.parts) = Len(files)
    /\ \A i \in 1..Len(files) :
          /\ req.body.parts[i].bytes = files[i]
          /\ req.body.parts[i].file_name = file_names[i]

\* C13: upload_file_in_directory, for any files and any file_names, issues
\* exactly one multipart POST /upload with one part per element of files, in
\* input order, part i carrying files[i] under the file name file_names[i],
\* and ends by returning a result value, a success or a typed error.
C13_UploadDirOnePost ==
    (op = "upload_file_in_directory" /\ pc # "idle") =>
        /\ Len(sent) = 1
        /\ IsUploadPost(sent[1])
        /\ OnePartPerFile(sent[1], args.files, args.file_names)
        /\ pc = "done" => (IsOk(result) \/ IsErr(result))

(***************************************************************************)
(* C14: the kinds of the failures the operations return.                   *)
(***************************************************************************)
ReturnedFailure == pc = "done" /\ IsErr(result)

\* C14: every failure returned by any operation is of exactly one of three
\* kinds, InvalidRequest (transport), InvalidJson (JSON decoding) or ApiError
\* (the error of the service); no operation returns a failure of another
\* kind.
C14_ThreeKindsOfFailure ==
    ReturnedFailure =>
        Cardinality({v \in {"InvalidRequest", "InvalidJson", "ApiError"} :
                        result.variant = v}) = 1

\* check_nft has returned a decoding failure
C14_Witness ==
    /\ op = "check_nft"
    /\ ReturnedFailure
    /\ result.variant = "InvalidJson"

(***************************************************************************)
(* Two calls on the same handle. The methods take &self, so the runtime    *)
(* may run a second call on the handle between two await points of the     *)
(* first. The variables of the call hold the call that is running; parked  *)
(* holds the other one.                                                    *)
(***************************************************************************)
Running ==
    [op |-> op, args |-> args, pc |-> pc, queue |-> queue, net |-> net,
     inbox |-> inbox, sent |-> sent, rcvd |-> rcvd, result |-> result]

\* the runtime leaves the running call at an await point (or before its
\* start, or after its return) and goes on with the other call
Switch ==
    /\ parked' = Running
    /\ op' = parked.op
    /\ args' = parked.args
    /\ pc' = parked.pc
    /\ queue' = parked.queue
    /\ net' = parked.net
    /\ inbox' = parked.inbox
    /\ sent' = parked.sent
    /\ rcvd' = parked.rcvd
    /\ result' = parked.result
    /\ UNCHANGED <<handle, store, store0, foreign>>

\* the responses the service gives when two calls run
FewResponses ==
    { TransportError,
      Http(404, JsonBody(JObj([ok |-> JBool(FALSE), error |-> JStr("not found")]))),
      Http(200, JsonBody(Envelope(TRUE, JArr(<<>>)))),
      Http(200, JsonBody(Envelope(TRUE, JArr(<<EntryB, EntryA>>)))),
      Http(200, JsonBody(Envelope(TRUE, EntryC))) }

FewRespond ==
    /\ Len(rcvd) < MaxCallResponses
    /\ \E resp \in FewResponses : Deliver(resp)
    /\ UNCHANGED store

NextTwoCalls ==
    \/ CallList \/ ListReturn
    \/ CallUploadFile \/ UploadFileReturn
    \/ CallUploadDir \/ UploadDirReturn
    \/ CallGet \/ GetReturn
    \/ CallCheck \/ CheckReturn
    \/ CallDelete \/ DeleteReturn
    \/ CallStoreNft \/ StoreNftOnFirst \/ StoreNftOnSecond
    \/ CallStoreDir \/ StoreDirOnFirst \/ StoreDirOnSecond
    \/ CallDeleteAll \/ DeleteAllOnList \/ DeleteAllOnDelete
    \/ FewRespond
    \/ Switch

SpecTwoCalls == Init /\ [][NextTwoCalls]_vars

(***************************************************************************)
(* The requests of a call that runs alone: what the method sends, given    *)
(* its arguments and the responses it has resumed with.                    *)
(***************************************************************************)
\* delete_all_nft after its first list request: q holds the entries of the
\* page being deleted, the first of them awaited, and is empty while a list
\* is awaited
RECURSIVE DeleteAllAlone(_, _, _)
DeleteAllAlone(h, resps, q) ==
    IF resps = <<>> THEN <<>>
    ELSE IF q = <<>>
    THEN LET nfts == ListResult(Head(resps), FALSE)
         IN IF IsErr(nfts) THEN <<>>
            ELSE IF NoNftStored(nfts.val) THEN <<>>
            ELSE IF nfts.val.value = <<>>
            THEN <<ListRequest(h, None, Some("100"))>>
                     \o DeleteAllAlone(h, Tail(resps), <<>>)
            ELSE <<DeleteRequest(h, nfts.val.value[1].cid)>>
                     \o DeleteAllAlone(h, Tail(resps), nfts.val.value)
    ELSE IF IsErr(DeleteResult(Head(resps))) THEN <<>>
         ELSE IF Tail(q) = <<>>
         THEN <<ListRequest(h, None, Some("100"))>>
                  \o DeleteAllAlone(h, Tail(resps), <<>>)
         ELSE <<DeleteRequest(h, Tail(q)[1].cid)>>
                  \o DeleteAllAlone(h, Tail(resps), Tail(q))

StoreNftAlone(h, a, resps) ==
    <<UploadFileRequest(h, a.file)>> \o
    IF resps = <<>> THEN <<>>
    ELSE LET response == UploadFileResult(resps[1])
         IN IF IsErr(response) THEN <<>>
            ELSE <<UploadFileRequest(h, ToVec(StoreNftMetadata(response.val.value.cid,
                                                              a.nft_name, a.description)))>>

StoreDirAlone(h, a, resps) ==
    IF UploadDirPanics(a.files, a.file_names) THEN <<>>
    ELSE <<UploadDirRequest(h, a.files, a.file_names)>> \o
         IF resps = <<>> THEN <<>>
         ELSE LET response == UploadDirResult(resps[1])
              IN IF IsErr(response) THEN <<>>
                 ELSE <<UploadDirRequest(h,
                            <<ToVec(StoreDirMetadata(response.val.value.cid,
                                                     response.val.value.files,
                                                     a.nft_name, a.description))>>,
                            <<"metadata.json">>)>>

RequestsAlone(h, name, a, resps) ==
    CASE name = "none" -> <<>>
      [] name = "list_all_stored_nft" -> <<ListRequest(h, a.before, a.limit)>>
      [] name = "upload_file" -> <<UploadFileRequest(h, a.file)>>
      [] name = "upload_file_in_directory" ->
            IF UploadDirPanics(a.files, a.file_names) THEN <<>>
            ELSE <<UploadDirRequest(h, a.files, a.file_names)>>
      [] name = "get_nft" -> <<GetRequest(h, a.cid)>>
      [] name = "check_nft" -> <<CheckRequest(h, a.cid)>>
      [] name = "delete_nft" -> <<DeleteRequest(h, a.cid)>>
      [] name = "store_nft" -> StoreNftAlone(h, a, resps)
      [] name = "store_nft_in_directory" -> StoreDirAlone(h, a, resps)
      [] name = "delete_all_nft" ->
            <<ListRequest(h, None, Some("100"))>> \o DeleteAllAlone(h, resps, <<>>)

(***************************************************************************)
(* C12: the handle is read-only.                                           *)
(***************************************************************************)
\* the responses the call has resumed with
ResumedWith(c) ==
    IF c.inbox.some THEN SubSeq(c.rcvd, 1, Len(c.rcvd) - 1) ELSE c.rcvd

\* the requests of the call are those of the same call running alone against
\* the same responses
AsAlone(c) == c.sent = RequestsAlone(handle, c.op, c.args, ResumedWith(c))

\* C12: no operation, whether it succeeds or fails, changes the base URL or
\* the token of the handle, and when two calls run concurrently on the same
\* handle, the requests each of them issues (method, URL, token, payload)
\* are those the call issues when it runs alone against the same responses.
C12_HandleIsReadOnly ==
    /\ [][handle' = handle]_vars
    /\ [](AsAlone(Running) /\ AsAlone(parked))

\* delete_all_nft and store_nft are both under way on the same handle, each
\* having resumed at least once
C12_Witness ==
    /\ pc = "store_nft_2"
    /\ parked.pc = "delete_all_delete"
    /\ Len(parked.rcvd) = 2

(***************************************************************************)
(* The account on the service. An upload adds an entry under a new cid, a  *)
(* list answers with the first page, a delete removes the entry; a request *)
(* that the service refuses, or that does not reach it, changes nothing.   *)
(* Other clients of the same account upload and delete in between.         *)
(***************************************************************************)
\* the cid the service gives to the content of the k-th request of the call
UploadedCid(k) == "up" \o ToString(k)

\* the files of an uploaded directory, as the service reports them
UploadedFiles(req) ==
    IF req.body.kind = "multipart"
    THEN [i \in 1..Len(req.body.parts) |->
             JObj([name |-> JStr(req.body.parts[i].file_name)])]
    ELSE <<>>

UploadRespond ==
    /\ net # <<>>
    /\ IsUploadPost(Head(net))
    /\ LET cid == UploadedCid(Len(rcvd) + 1)
       IN /\ Deliver(Http(200, JsonBody(Envelope(TRUE,
                 JObj([cid |-> JStr(cid), files |-> JArr(UploadedFiles(Head(net)))])))))
          /\ store' = <<cid>> \o store

\* the request does not reach the service, or the service or a gateway in
\* front of it refuses it
Refusals ==
    { TransportError,
      Http(500, JsonBody(JObj([ok |-> JBool(FALSE), error |-> JStr("internal error")]))),
      Http(502, NotJson) }

RefuseRespond ==
    /\ \E resp \in Refusals : Deliver(resp)
    /\ UNCHANGED store

\* a delete of an entry that is not in the store
MissingRespond ==
    /\ net # <<>>
    /\ Head(net).method = "DELETE"
    /\ \A i \in 1..Len(store) : ~IsDeleteOf(Head(net), store[i])
    /\ Deliver(Http(404, JsonBody(JObj([ok |-> JBool(FALSE), error |-> JStr("not found")]))))
    /\ UNCHANGED store

OtherCid(i) == "other" \o ToString(i)

OtherActs ==
    /\ foreign < MaxForeign
    /\ foreign' = foreign + 1
    /\ UNCHANGED <<handle, op, args, pc, queue, net, inbox, sent, rcvd, result, store0,
                   parked>>

\* another client uploads
OtherUpload ==
    /\ OtherActs
    /\ store' = <<OtherCid(foreign + 1)>> \o store

\* another client deletes an entry
OtherDelete ==
    /\ OtherActs
    /\ \E i \in 1..Len(store) : store' = RemoveAt(store, i)

\* the two-step store compositions against the account
NextUploads ==
    \/ CallStoreNft \/ StoreNftOnFirst \/ StoreNftOnSecond
    \/ CallStoreDir \/ StoreDirOnFirst \/ StoreDirOnSecond
    \/ UploadRespond
    \/ RefuseRespond

SpecUploads == InitStore /\ [][NextUploads]_vars

\* delete_all_nft against the account, with other clients at work
NextShared ==
    \/ CallDeleteAll \/ DeleteAllOnList \/ DeleteAllOnDelete
    \/ StoreRespond
    \/ MissingRespond
    \/ RefuseRespond
    \/ OtherUpload
    \/ OtherDelete

SpecShared == InitStore /\ [][NextShared]_vars

(***************************************************************************)
(* C15: the two-step store compositions do not roll back.                  *)
(***************************************************************************)
StoreCall == op \in {"store_nft", "store_nft_in_directory"}

\* what the k-th upload of the store call returned
UploadReturned(k) ==
    IF op = "store_nft" THEN UploadFileResult(rcvd[k]) ELSE UploadDirResult(rcvd[k])

NoDeleteIssued == \A k \in 1..Len(sent) : sent[k].method # "DELETE"

\* C15: when the first upload of store_nft or store_nft_in_directory
\* succeeds and the second fails, the call returns the error of the second
\* upload, issues no DELETE, and the content stored by the first upload
\* stays in the store; when the first upload fails, no second upload is
\* issued and the store is unchanged by the call.
C15_StoreDoesNotRollBack ==
    StoreCall =>
        /\ NoDeleteIssued
        /\ (pc = "done" /\ Len(rcvd) = 1) =>
              /\ IsErr(UploadReturned(1))
              /\ result = UploadReturned(1)
              /\ Len(sent) = 1
              /\ store = store0
        /\ (pc = "done" /\ Len(rcvd) = 2 /\ IsErr(UploadReturned(2))) =>
              /\ IsOk(UploadReturned(1))
              /\ result = UploadReturned(2)
              /\ Len(sent) = 2
              /\ store = <<UploadReturned(1).val.value.cid>> \o store0

\* store_nft_in_directory has returned the error of its second upload, with
\* entries in the store before the call
C15_Witness ==
    /\ op = "store_nft_in_directory"
    /\ pc = "done"
    /\ Len(rcvd) = 2
    /\ IsErr(result)
    /\ result.variant = "ApiError"
    /\ store0 # <<>>

(***************************************************************************)
(* C16: the requests of delete_all_nft and its {ok: true}.                 *)
(***************************************************************************)
IsList(req) == req.method = "GET"

IsDelete(req) == req.method = "DELETE"

\* the position in sent of the last list request before the k-th request
LastListBefore(k) ==
    CHOOSE j \in 1..(k - 1) :
        /\ IsList(sent[j])
        /\ \A i \in (j + 1)..(k - 1) : ~IsList(sent[i])

\* the entries of the list response that answered the j-th request
PageAt(j) == ListResult(rcvd[j], FALSE).val.value

GotSuccess(k) ==
    /\ k <= Len(rcvd)
    /\ rcvd[k].kind = "http"
    /\ rcvd[k].status \in 200..299

\* C16: in every execution of delete_all_nft, alone or interleaved with
\* other clients that upload or delete on the same account, every list
\* request asks for the first page (no before cursor, limit 100); every
\* DELETE targets a cid of the most recent list response received, in the
\* order of that response; and the call returns {ok: true} only if the last
\* list response received was ok with zero entries and every DELETE issued
\* got a 2xx response.
C16_DeleteAllFollowsLastPage ==
    op = "delete_all_nft" =>
        /\ \A k \in 1..Len(sent) :
              /\ IsList(sent[k]) \/ IsDelete(sent[k])
              /\ IsList(sent[k]) => sent[k].url = handle.url \o "/?before=&limit=100"
              /\ IsDelete(sent[k]) =>
                    /\ \E j \in 1..(k - 1) : IsList(sent[j])
                    /\ LET j == LastListBefore(k)
                       IN /\ GotSuccess(j)
                          /\ k - j <= Len(PageAt(j))
                          /\ sent[k].url = handle.url \o "/" \o PageAt(j)[k - j].cid
        /\ (pc = "done" /\ result = Ok([ok |-> TRUE])) =>
              /\ Len(rcvd) = Len(sent)
              /\ IsList(sent[Len(sent)])
              /\ GotSuccess(Len(sent))
              /\ LET last == ListResult(LastResponse, FALSE)
                 IN IsOk(last) /\ last.val.ok /\ last.val.value = <<>>
              /\ \A k \in 1..Len(sent) : IsDelete(sent[k]) => GotSuccess(k)

\* delete_all_nft has returned {ok: true} after deleting entries of two
\* pages while other clients acted on the account
C16_Witness ==
    /\ op = "delete_all_nft"
    /\ pc = "done"
    /\ result = Ok([ok |-> TRUE])
    /\ foreign >= 1
    /\ Cardinality({k \in 1..Len(sent) : IsList(sent[k])}) >= 3
    /\ store # <<>>

====
